---- MODULE Spec2Model ----
(***************************************************************************)
(* Model of the asteroid impact simulator page: the asteroid selector       *)
(* (fetchAsteroids, handleAsteroidSelect), the CollisionAnalysis component  *)
(* (calculateCollisionProbability and its useEffect) and the Index page     *)
(* state that connects them.                                                *)
(*                                                                          *)
(* Numbers.  JavaScript numbers are modelled exactly, as rationals in fixed *)
(* units:                                                                   *)
(*   - a parsed miss distance or velocity is an integer count of tenths     *)
(*     (0.1 km, 0.1 km/s), or NaN;                                          *)
(*   - a probability is an integer count of 1/ProbDen, or NaN;              *)
(*   - the average diameter is an integer count of twentieths of a unit     *)
(*     (the sum of the two bounds, each in tenths);                         *)
(*   - mass, kinetic energy and the fourth power of the crater size are     *)
(*     decimals m * 10^e (Dec), in units of pi/96 kg, pi/192 J and          *)
(*     pi/192 km^4, or NaN.                                                 *)
(* A string is a sequence of one-character strings.                         *)
(***************************************************************************)
EXTENDS Integers, Sequences, FiniteSets, TLC

Null == [null |-> TRUE]

(* ------------------------------------------------------------------ *)
(* JavaScript numbers: a value or NaN                                  *)
(* ------------------------------------------------------------------ *)
NaN == [nan |-> TRUE, v |-> 0]
Num(x) == [nan |-> FALSE, v |-> x]

\* a < b in JavaScript: false as soon as one side is NaN
Lt(a, b) == ~a.nan /\ ~b.nan /\ a.v < b.v

\* Math.max(a, b): NaN as soon as one argument is NaN
MathMax(a, b) ==
  IF a.nan \/ b.nan THEN NaN ELSE Num(IF a.v >= b.v THEN a.v ELSE b.v)

\* Math.min(a, b): NaN as soon as one argument is NaN
MathMin(a, b) ==
  IF a.nan \/ b.nan THEN NaN ELSE Num(IF a.v <= b.v THEN a.v ELSE b.v)

Sub(a, b) == IF a.nan \/ b.nan THEN NaN ELSE Num(a.v - b.v)
Times(a, k) == IF a.nan THEN NaN ELSE Num(a.v * k)

(* ------------------------------------------------------------------ *)
(* parseFloat                                                          *)
(* ------------------------------------------------------------------ *)
DigitChars == {"0", "1", "2", "3", "4", "5", "6", "7", "8", "9"}
DigitValue ==
  ("0" :> 0) @@ ("1" :> 1) @@ ("2" :> 2) @@ ("3" :> 3) @@ ("4" :> 4) @@
  ("5" :> 5) @@ ("6" :> 6) @@ ("7" :> 7) @@ ("8" :> 8) @@ ("9" :> 9)

RECURSIVE TrimStart(_)
TrimStart(s) ==
  IF s # <<>> /\ Head(s) = " " THEN TrimStart(Tail(s)) ELSE s

\* the longest prefix of s made of decimal digits
RECURSIVE DigitPrefix(_)
DigitPrefix(s) ==
  IF s # <<>> /\ Head(s) \in DigitChars
    THEN <<Head(s)>> \o DigitPrefix(Tail(s))
    ELSE <<>>

\* the value of a sequence of digits, most significant first
RECURSIVE DigitsValue(_)
DigitsValue(ds) ==
  IF ds = <<>> THEN 0
  ELSE DigitsValue(SubSeq(ds, 1, Len(ds) - 1)) * 10 + DigitValue[ds[Len(ds)]]

\* parseFloat(s), in tenths: leading white space is skipped, then an optional
\* sign, then the longest prefix of the form digits [. digits]; what follows
\* is ignored, and NaN is returned when no digit was read.  The strings of the
\* model carry at most one fractional digit, no exponent and no "Infinity".
parseFloat(s) ==
  LET t    == TrimStart(s)
      sign == IF t # <<>> /\ Head(t) = "-" THEN -1 ELSE 1
      u    == IF t # <<>> /\ Head(t) \in {"-", "+"} THEN Tail(t) ELSE t
      ip   == DigitPrefix(u)
      rest == SubSeq(u, Len(ip) + 1, Len(u))
      fp   == IF rest # <<>> /\ Head(rest) = "." THEN DigitPrefix(Tail(rest)) ELSE <<>>
  IN  IF ip = <<>> /\ fp = <<>>
        THEN NaN
        ELSE Num(sign * (DigitsValue(ip) * 10
                         + (IF fp = <<>> THEN 0 ELSE DigitValue[fp[1]])))

(* ------------------------------------------------------------------ *)
(* Decimals m * 10^e for mass, energy and crater size                  *)
(* ------------------------------------------------------------------ *)
DecNaN == [nan |-> TRUE, m |-> 0, e |-> 0]

\* the decimal m * 10^e with the trailing zeros of m moved into e
RECURSIVE Dec(_, _)
Dec(m, e) ==
  IF m = 0 THEN [nan |-> FALSE, m |-> 0, e |-> 0]
  ELSE IF m % 10 = 0 THEN Dec(m \div 10, e + 1)
  ELSE [nan |-> FALSE, m |-> m, e |-> e]

DecMul(a, b) ==
  IF a.nan \/ b.nan THEN DecNaN ELSE Dec(a.m * b.m, a.e + b.e)

\* Math.pow(a, 3) and Math.pow(a, 2)
DecCube(a) == DecMul(a, DecMul(a, a))
DecSquare(a) == DecMul(a, a)

RECURSIVE NumDigits(_)
NumDigits(n) == IF n < 10 THEN 1 ELSE 1 + NumDigits(n \div 10)

RECURSIVE Pow10(_)
Pow10(k) == IF k <= 0 THEN 1 ELSE 10 * Pow10(k - 1)

\* a <= b for two decimals that are not negative
DecLeqPos(a, b) ==
  IF a.m = 0 THEN TRUE
  ELSE IF b.m = 0 THEN FALSE
  ELSE LET la == NumDigits(a.m) + a.e
           lb == NumDigits(b.m) + b.e
           lo == IF a.e <= b.e THEN a.e ELSE b.e
       IN  IF la # lb THEN la < lb
           ELSE a.m * Pow10(a.e - lo) <= b.m * Pow10(b.e - lo)

\* a <= b in JavaScript: false as soon as one side is NaN
DecLeq(a, b) ==
  /\ ~a.nan /\ ~b.nan
  /\ IF a.m < 0 /\ b.m < 0
       THEN DecLeqPos([b EXCEPT !.m = -b.m], [a EXCEPT !.m = -a.m])
     ELSE IF a.m < 0 THEN TRUE
     ELSE IF b.m < 0 THEN FALSE
     ELSE DecLeqPos(a, b)

(* ------------------------------------------------------------------ *)
(* calculateCollisionProbability: the computation                      *)
(* ------------------------------------------------------------------ *)
earthRadius == 6371

\* probabilities are counted in units of 1 / ProbDen
ProbDen == 100000 * earthRadius

\* the probability literal num / den (den divides ProbDen)
Prob(num, den) == Num((ProbDen \div den) * num)

\* a whole number of kilometres, in tenths
Km(x) == Num(x * 10)

\* missDistance / denomKm as a probability; exact, denomKm * 10 divides ProbDen
Quotient(missDistance, denomKm) ==
  IF missDistance.nan THEN NaN
  ELSE Num(missDistance.v * (ProbDen \div (denomKm * 10)))

\* Math.max(0.1, 1 - (missDistance / (earthRadius * 10)))
VeryCloseProbability(missDistance) ==
  MathMax(Prob(1, 10), Sub(Prob(1, 1), Quotient(missDistance, earthRadius * 10)))

\* a slip of sign: Math.max(0.001, 0.1 + (missDistance / (earthRadius * 100)))
CloseProbability_Sum(missDistance) ==
  LET q == Quotient(missDistance, earthRadius * 100)
  IN  MathMax(Prob(1, 1000), IF q.nan THEN NaN ELSE Num(Prob(1, 10).v + q.v))

\* Math.max(0.001, 0.1 - (missDistance / (earthRadius * 100)))
CloseProbability(missDistance) ==
  MathMax(Prob(1, 1000), Sub(Prob(1, 10), Quotient(missDistance, earthRadius * 100)))

\* Math.max(0.0001, 0.01 - (missDistance / (earthRadius * 1000)))
DistantProbability(missDistance) ==
  MathMax(Prob(1, 10000), Sub(Prob(1, 100), Quotient(missDistance, earthRadius * 1000)))

\* a slip of comparison: missDistance <= earthRadius * 2
IsVeryClose_Inclusive(missDistance) ==
  ~missDistance.nan /\ missDistance.v <= Km(earthRadius * 2).v

\* missDistance < earthRadius * 2
IsVeryClose(missDistance) == Lt(missDistance, Km(earthRadius * 2))

\* missDistance < earthRadius * 10
IsClose(missDistance) == Lt(missDistance, Km(earthRadius * 10))

\* the probability the if / else if / else chain assigns
BandProbability(missDistance) ==
  IF IsVeryClose(missDistance) THEN VeryCloseProbability(missDistance)
  ELSE IF IsClose(missDistance) THEN CloseProbability(missDistance)
  ELSE DistantProbability(missDistance)

\* the collision flag taken from the band: willCollide = true in the first branch
WillCollide_WholeBand(missDistance) == IsVeryClose(missDistance)

\* missDistance < earthRadius * 1.5, assigned in the first branch only
WillCollide(missDistance) ==
  IsVeryClose(missDistance) /\ Lt(missDistance, Num(earthRadius * 15))

\* the hazard flag left out
HazardProbability_Ignored(probability, hazardous) == probability

\* if (asteroid.is_potentially_hazardous_asteroid) probability *= 2
HazardProbability(probability, hazardous) ==
  IF hazardous THEN Times(probability, 2) ELSE probability

\* the cap left out
CapProbability_NoCap(probability) == probability

\* Math.min(probability, 0.95)
CapProbability(probability) == MathMin(probability, Prob(95, 100))

\* (estimated_diameter_min + estimated_diameter_max) / 2, in twentieths
Diameter(asteroid) ==
  asteroid.estimated_diameter_min + asteroid.estimated_diameter_max

\* (4/3) * Math.PI * Math.pow(diameter/2, 3) * 2500, in units of pi/96:
\* with diameter = n/20, (4/3) * pi * (n/40)^3 * 2500 = 5 * n^3 * (pi/96)
Mass(diameter) == DecMul(Dec(5, 0), DecCube(Dec(diameter, 0)))

\* the velocity not squared: 0.5 * mass * (velocity * 1000)
KineticEnergy_Linear(mass, velocity) ==
  IF velocity.nan THEN DecNaN
  ELSE DecMul(mass, DecMul(Dec(velocity.v, 0), Dec(1, 2)))

\* 0.5 * mass * Math.pow(velocity * 1000, 2), in units of pi/192:
\* with velocity = n/10, (velocity * 1000)^2 = n^2 * 10^4
KineticEnergy(mass, velocity) ==
  IF velocity.nan THEN DecNaN
  ELSE DecMul(mass, DecMul(DecSquare(Dec(velocity.v, 0)), Dec(1, 4)))

\* Math.pow(kineticEnergy / 1e15, 0.25) * 1000, given by its fourth power
\* (kineticEnergy / 1e15) * 1000^4; the power of a negative base is NaN
CraterSize(kineticEnergy) ==
  IF kineticEnergy.nan \/ kineticEnergy.m < 0 THEN DecNaN
  ELSE DecMul(kineticEnergy, Dec(1, -3))

\* the collision flag left out: diameter > 100
TsunamiRisk_SizeOnly(diameter, willCollide) == diameter > 100 * 20

\* diameter > 100 && willCollide
TsunamiRisk(diameter, willCollide) == diameter > 100 * 20 /\ willCollide

\* a timestamp, as opposed to undefined (Null)
Time(t) == [null |-> FALSE, at |-> t]

\* the condition on willCollide left out
TimeToImpact_Always(willCollide, now, rnd) ==
  Time(now + rnd * ((365 * 24 * 60 * 60) \div 1000))

\* Date.now() + (Math.random() * 365 * 24 * 60 * 60 * 1000), in seconds, for
\* the clock reading now and the random number rnd / 1000
TimeToImpact(willCollide, now, rnd) ==
  IF willCollide THEN Time(now + rnd * ((365 * 24 * 60 * 60) \div 1000)) ELSE Null

\* the record with the smallest miss distance, the first of them: what
\* getClosestApproachDistance reduces the list to
RECURSIVE MinimumApproach(_)
MinimumApproach(approaches) ==
  IF Len(approaches) = 1 THEN approaches[1]
  ELSE LET closest == MinimumApproach(SubSeq(approaches, 1, Len(approaches) - 1))
           current == approaches[Len(approaches)]
       IN  IF Lt(parseFloat(current.miss_distance), parseFloat(closest.miss_distance))
             THEN current ELSE closest

\* the estimator taking the record the selector displays
ClosestApproach_Minimum(asteroid) == MinimumApproach(asteroid.close_approach_data)

\* const closestApproach = asteroid.close_approach_data[0]
ClosestApproach(asteroid) == asteroid.close_approach_data[1]

\* lines 208-252: the analysisResult built from an asteroid that has a first
\* close-approach record
AnalysisResult(asteroid, now, rnd) ==
  LET closestApproach == ClosestApproach(asteroid)
      missDistance == parseFloat(closestApproach.miss_distance)
      velocity == parseFloat(closestApproach.relative_velocity)
      diameter == Diameter(asteroid)
      willCollide == WillCollide(missDistance)
      probability ==
        HazardProbability(BandProbability(missDistance),
                          asteroid.is_potentially_hazardous_asteroid)
      kineticEnergy == KineticEnergy(Mass(diameter), velocity)
  IN  [willCollide |-> willCollide,
       probability |-> CapProbability(probability),
       timeToImpact |-> TimeToImpact(willCollide, now, rnd),
       impactVelocity |-> velocity,
       kineticEnergy |-> kineticEnergy,
       tsunamiRisk |-> TsunamiRisk(diameter, willCollide),
       craterSize |-> CraterSize(kineticEnergy)]

(* ------------------------------------------------------------------ *)
(* Asteroids of the model                                              *)
(* ------------------------------------------------------------------ *)
Approach(miss, velocity) ==
  [miss_distance |-> miss, relative_velocity |-> velocity]

Asteroid(id, magnitude, range, approaches, hazardous) ==
  [id |-> id,
   absolute_magnitude_h |-> magnitude,
   estimated_diameter_min |-> range[1],
   estimated_diameter_max |-> range[2],
   close_approach_data |-> approaches,
   is_potentially_hazardous_asteroid |-> hazardous]

\* miss_distance.kilometers: values on both sides of 1.5, 2 and 10 Earth
\* radii and of the floor of the middle band, and strings that are no
\* non-negative number
MissStrings ==
  { <<"0">>,
    <<"5", "0", "0", "0">>,
    <<" ", "5", "0", "0", "0">>,
    <<"9", "5", "5", "6", ".", "4">>,
    <<"9", "5", "5", "6", ".", "5">>,
    <<"1", "2", "7", "4", "1", ".", "9">>,
    <<"1", "2", "7", "4", "2">>,
    <<"5", "0", "0", "0", "0">>,
    <<"6", "3", "0", "7", "2", ".", "9">>,
    <<"6", "3", "7", "0", "9", ".", "9">>,
    <<"6", "3", "7", "1", "0">>,
    <<"7", "0", "0", "0", "0">>,
    <<"7", "0", "0", "0", "0", "0", "0">>,
    <<"-", "5", "0", "0", "0">>,
    <<"x">>,
    <<>> }

\* relative_velocity.kilometers_per_second
VelocityStrings ==
  { <<"0">>,
    <<"1", "0">>,
    <<"2", "0">>,
    <<"1", "2", ".", "5">>,
    <<"-", "3">>,
    <<"x">> }

\* estimated_diameter_min and _max, in tenths: averages 0, 0.5, 1, 2, 100,
\* 105 and 200
DiameterRanges ==
  { <<0, 0>>, <<4, 6>>, <<8, 12>>, <<15, 25>>,
    <<900, 1100>>, <<950, 1150>>, <<1800, 2200>> }

\* records that may follow the first one of a list
LaterApproaches ==
  { <<>>,
    <<Approach(<<"5", "0", "0", "0">>, <<"1", "0">>)>>,
    <<Approach(<<"7", "0", "0", "0", "0", "0", "0">>, <<"2", "0">>),
      Approach(<<"0">>, <<"1", "2", ".", "5">>)>> }

\* the empty list, every list of one record, and lists of two and three
\* records whose first one is not the closest
ApproachLists ==
  {<<>>}
  \cup {<<Approach(m, v)>> : m \in MissStrings, v \in VelocityStrings}
  \cup {<<Approach(<<"5", "0", "0", "0", "0">>, <<"2", "0">>)>> \o later :
          later \in LaterApproaches}

\* the asteroids the estimator is run on
EstimateInputs ==
  { Asteroid("a", 20, r, ap, hz) :
      r \in DiameterRanges, ap \in ApproachLists, hz \in BOOLEAN }

\* Date.now(), in seconds, and Math.random(), in thousandths
NowSamples == {1000, 1700000000}
RandomSamples == {0, 500, 999}

(* ------------------------------------------------------------------ *)
(* State                                                               *)
(* ------------------------------------------------------------------ *)
VARIABLES
  asteroids,         \* AsteroidSelector: the fetched list
  loading,           \* AsteroidSelector: a fetch is in flight
  error,             \* AsteroidSelector: the last fetch error, or Null
  thrown,            \* what the catch block of the last fetchAsteroids caught
  showSimulation,    \* Index: set by onStartSimulation
  selectedLocation,  \* ImpactSimulation: the impact location, or Null
  isSimulating,      \* ImpactSimulation: a simulation is shown as running
  simulationPhase,   \* ImpactSimulation: the phase displayed
  sims,              \* the invocations of startSimulation in flight, oldest first
  startedBy,         \* what started the last simulation: a marker or the button
  phaseLog,          \* the phases set since the last start, with their times
  simulationEndedAt, \* when the last simulation set isSimulating to false
  selectedAsteroid,  \* Index: the selected asteroid, or Null
  collisionData,     \* Index: the analysis handed to ImpactSimulation, or Null
  analyzing,         \* CollisionAnalysis
  progress,          \* CollisionAnalysis
  analysis,          \* CollisionAnalysis: the displayed analysis, or Null
  runs,              \* the invocations of calculateCollisionProbability in
                     \* flight, oldest first: the asteroid each closed over and
                     \* the number of its timers that have fired
  outcome,           \* how the last invocation to end settled its promise
  analysedAsteroid,  \* history: the asteroid the last delivered analysis is of
  analysedAt         \* history: the Date.now() it was computed at

vars ==
  <<asteroids, loading, error, thrown, selectedAsteroid, collisionData,
    analyzing, progress, analysis, runs, outcome, analysedAsteroid, analysedAt,
    showSimulation, selectedLocation, isSimulating, simulationPhase, sims,
    startedBy, phaseLog, simulationEndedAt>>

simulationVars ==
  <<showSimulation, selectedLocation, isSimulating, simulationPhase, sims,
    startedBy, phaseLog, simulationEndedAt>>

selectorVars == <<asteroids, loading, error, thrown>>
analysisVars ==
  <<collisionData, analyzing, progress, analysis, runs, outcome,
    analysedAsteroid, analysedAt>>

\* the number of invocations of calculateCollisionProbability in flight at once
MaxRuns == 2

progressSteps == <<10, 25, 40, 60, 80, 95, 100>>

(* ------------------------------------------------------------------ *)
(* AsteroidSelector                                                    *)
(* ------------------------------------------------------------------ *)
NearAsteroid ==
  Asteroid("near", 22, <<8, 12>>,
           <<Approach(<<"5", "0", "0", "0">>, <<"2", "0">>)>>, FALSE)
FarAsteroid ==
  Asteroid("far", 25, <<4, 6>>,
           <<Approach(<<"5", "0", "0", "0", "0">>, <<"1", "5">>)>>, TRUE)
BareAsteroid ==
  Asteroid("bare", 20, <<8, 12>>, <<>>, FALSE)

\* data.near_earth_objects of the responses of the feed: a list of asteroids
\* per day
Feeds ==
  { <<<<BareAsteroid, NearAsteroid>>, <<FarAsteroid>>>>,
    <<<<NearAsteroid>>>>,
    <<>> }

\* what the try block may throw: the Error of a response that is not ok, an
\* Error of fetch or of response.json(), a value that is no Error
Failures ==
  { [isError |-> TRUE, message |-> "Failed to fetch asteroid data"],
    [isError |-> TRUE, message |-> "Failed to fetch"],
    [isError |-> FALSE, message |-> "timeout"] }

\* the message lost
ErrorMessage_Unknown(err) == "Unknown error occurred"

\* err instanceof Error ? err.message : 'Unknown error occurred'
ErrorMessage(err) ==
  IF err.isError THEN err.message ELSE "Unknown error occurred"

\* the messages the error state may hold
FailureMessages == {ErrorMessage(err) : err \in Failures}

\* Object.values(...).forEach(dayAsteroids => allAsteroids.push(...dayAsteroids))
RECURSIVE Flatten(_)
Flatten(days) ==
  IF days = <<>> THEN <<>> ELSE Head(days) \o Flatten(Tail(days))

\* x put into a list sorted by descending magnitude, after its equals
RECURSIVE InsertByMagnitude(_, _)
InsertByMagnitude(x, sorted) ==
  IF sorted = <<>> THEN <<x>>
  ELSE IF Head(sorted).absolute_magnitude_h >= x.absolute_magnitude_h
    THEN <<Head(sorted)>> \o InsertByMagnitude(x, Tail(sorted))
    ELSE <<x>> \o sorted

\* .sort((a, b) => b.absolute_magnitude_h - a.absolute_magnitude_h)
RECURSIVE SortByMagnitude(_)
SortByMagnitude(list) ==
  IF list = <<>> THEN <<>>
  ELSE InsertByMagnitude(list[Len(list)],
                         SortByMagnitude(SubSeq(list, 1, Len(list) - 1)))

\* .slice(0, 20)
Top20(list) == SubSeq(list, 1, IF Len(list) < 20 THEN Len(list) ELSE 20)

\* fetchAsteroids up to its first await: the Refresh button is disabled
\* while loading
FetchAsteroids ==
  /\ ~loading
  /\ loading' = TRUE
  /\ error' = Null
  /\ thrown' = Null
  /\ UNCHANGED <<asteroids, selectedAsteroid>>
  /\ UNCHANGED analysisVars
  /\ UNCHANGED simulationVars

\* fetchAsteroids from an ok response on
FetchSucceeds ==
  /\ loading
  /\ \E days \in Feeds :
       asteroids' = Top20(SortByMagnitude(Flatten(days)))
  /\ loading' = FALSE
  /\ UNCHANGED <<error, thrown, selectedAsteroid>>
  /\ UNCHANGED analysisVars
  /\ UNCHANGED simulationVars

\* fetchAsteroids through its catch and finally blocks
FetchFails ==
  /\ loading
  /\ \E err \in Failures :
       /\ thrown' = err
       /\ error' = ErrorMessage(err)
  /\ loading' = FALSE
  /\ UNCHANGED <<asteroids, selectedAsteroid>>
  /\ UNCHANGED analysisVars
  /\ UNCHANGED simulationVars

\* n / 10^k rounded to the nearest integer, halves away from zero, as toFixed
\* rounds a number whose decimal expansion is exact
Rounded(n, k) ==
  LET half == Pow10(k) \div 2
  IN  IF n >= 0 THEN (n + half) \div Pow10(k) ELSE -((-n + half) \div Pow10(k))

\* getClosestApproachDistance: 'Unknown' without a record, else the smallest
\* miss distance of the list, formatted: the number printed, the number of
\* its decimals, and the unit
getClosestApproachDistance(asteroid) ==
  IF Len(asteroid.close_approach_data) = 0
    THEN [text |-> "Unknown"]
  ELSE LET distanceKm == parseFloat(MinimumApproach(asteroid.close_approach_data).miss_distance)
       IN  IF Lt(Num(1000000 * 10), distanceKm)
             THEN [value |-> Rounded(distanceKm.v, 6), decimals |-> 1, unit |-> "M km"]
           ELSE IF Lt(Num(1000 * 10), distanceKm)
             THEN [value |-> Rounded(distanceKm.v, 4), decimals |-> 0, unit |-> "K km"]
           ELSE IF distanceKm.nan
             THEN [text |-> "NaN km"]
           ELSE [value |-> Rounded(distanceKm.v, 1), decimals |-> 0, unit |-> " km"]

\* asteroids.find(a => a.id === asteroidId)
FindAsteroid(asteroidId) ==
  LET hits == {i \in 1..Len(asteroids) : asteroids[i].id = asteroidId}
  IN  IF hits = {} THEN Null
      ELSE asteroids[CHOOSE i \in hits : \A j \in hits : i <= j]

(* ------------------------------------------------------------------ *)
(* CollisionAnalysis                                                   *)
(* ------------------------------------------------------------------ *)
\* calculateCollisionProbability up to its first await
StartAnalysis(asteroid) ==
  /\ analyzing' = TRUE
  /\ progress' = 0
  /\ runs' = Append(runs, [asteroid |-> asteroid, step |-> 0])
  /\ UNCHANGED <<collisionData, analysis, outcome, analysedAsteroid, analysedAt>>

\* handleAsteroidSelect on an item of the list, setSelectedAsteroid, and the
\* effect of CollisionAnalysis, which runs when its asteroid prop changed
SelectAsteroid ==
  /\ Len(asteroids) > 0
  /\ Len(runs) < MaxRuns
  /\ \E i \in 1..Len(asteroids) :
       LET asteroid == FindAsteroid(asteroids[i].id)
       IN  /\ asteroid # selectedAsteroid
           /\ selectedAsteroid' = asteroid
           /\ StartAnalysis(asteroid)
  /\ UNCHANGED selectorVars
  /\ UNCHANGED simulationVars

\* one of the first six 300 ms timers of an invocation fires: timers of the
\* same delay fire in the order they were set, so an invocation never gets
\* ahead of one started before it
AdvanceProgress ==
  /\ \E i \in 1..Len(runs) :
       /\ runs[i].step < Len(progressSteps) - 1
       /\ \A j \in 1..(i - 1) : runs[j].step > runs[i].step
       /\ progress' = progressSteps[runs[i].step + 1]
       /\ runs' = [runs EXCEPT ![i].step = @ + 1]
  /\ UNCHANGED <<collisionData, analyzing, analysis, outcome,
                 analysedAsteroid, analysedAt>>
  /\ UNCHANGED selectorVars
  /\ UNCHANGED simulationVars
  /\ UNCHANGED selectedAsteroid

\* the seventh timer of the oldest invocation fires: setProgress(100), and
\* the rest of calculateCollisionProbability
CompleteAnalysis ==
  /\ runs # <<>>
  /\ Head(runs).step = Len(progressSteps) - 1
  /\ progress' = progressSteps[Len(progressSteps)]
  /\ runs' = Tail(runs)
  /\ LET asteroid == Head(runs).asteroid
     IN  \/ \* closestApproach is undefined: reading its miss_distance throws
            \* a TypeError, which rejects the promise nothing awaits
            /\ asteroid.close_approach_data = <<>>
            /\ outcome' = "TypeError"
            /\ UNCHANGED <<collisionData, analyzing, analysis,
                           analysedAsteroid, analysedAt>>
         \/ /\ asteroid.close_approach_data # <<>>
            /\ \E now \in NowSamples, rnd \in RandomSamples :
                 /\ analysis' = AnalysisResult(asteroid, now, rnd)
                 /\ collisionData' = analysis'
                 /\ analysedAt' = now
            /\ analysedAsteroid' = asteroid
            /\ analyzing' = FALSE
            /\ outcome' = "resolved"
  /\ UNCHANGED selectorVars
  /\ UNCHANGED simulationVars
  /\ UNCHANGED selectedAsteroid

(* ------------------------------------------------------------------ *)
(* ImpactSimulation                                                    *)
(* ------------------------------------------------------------------ *)
\* the most invocations of startSimulation in flight at once
MaxSimulations == 2

Location(name, lat, lng) == [name |-> name, lat |-> lat, lng |-> lng]

impactLocations ==
  << Location("Pacific Ocean", 0, -150),
     Location("Sahara Desert", 23, 10),
     Location("Atlantic Ocean", 30, -40),
     Location("Siberia", 60, 100),
     Location("Mediterranean Sea", 35, 15) >>

phases ==
  << "Asteroid entering atmosphere...",
     "Atmospheric compression heating...",
     "Impact imminent...",
     "IMPACT! Shockwave expanding...",
     "Crater formation...",
     "Debris ejection...",
     "Secondary effects spreading...",
     "Simulation complete." >>

\* the delay in ms of the timer awaited after each phase
PhaseDelay == 1500

\* Index renders ImpactSimulation once collisionData is set
SimulationMounted == collisionData # Null

\* the buttons never disabled
CanStartSimulation_Always == TRUE

\* disabled={isSimulating}, on the markers and on the Start button
CanStartSimulation == ~isSimulating

\* the Start button starting whatever was selected
ButtonStarts_Always == TRUE

\* if (!selectedLocation), in the onClick of the Start button
ButtonStarts == selectedLocation = Null

\* the loop taking every second phase
NextPhase_Skip(step) ==
  phases[IF step + 2 <= Len(phases) THEN step + 2 ELSE Len(phases)]

\* the phase the loop sets after the one of index step (from 1) was held
NextPhase(step) == phases[step + 1]

\* startSimulation up to its first await: the location, the flag, the
\* callback of Index, and the first phase
startSimulation(location, by) ==
  /\ selectedLocation' = location
  /\ isSimulating' = TRUE
  /\ showSimulation' = TRUE
  /\ simulationPhase' = phases[1]
  /\ sims' = Append(sims, [step |-> 1])
  /\ startedBy' = by
  /\ phaseLog' = <<[phase |-> phases[1], at |-> 0]>>
  /\ simulationEndedAt' = 0

\* a click on a marker of the map, which passes the coordinates only
MarkerClick ==
  /\ SimulationMounted
  /\ CanStartSimulation
  /\ Len(sims) < MaxSimulations
  /\ \E i \in 1..Len(impactLocations) :
       startSimulation([lat |-> impactLocations[i].lat,
                        lng |-> impactLocations[i].lng], "marker")
  /\ UNCHANGED selectorVars
  /\ UNCHANGED selectedAsteroid
  /\ UNCHANGED analysisVars

\* a click on the Start button that passes its test, which starts at the
\* first location of the list
StartButtonClick ==
  /\ SimulationMounted
  /\ CanStartSimulation
  /\ Len(sims) < MaxSimulations
  /\ ButtonStarts
  /\ startSimulation(impactLocations[1], "button")
  /\ UNCHANGED selectorVars
  /\ UNCHANGED selectedAsteroid
  /\ UNCHANGED analysisVars

\* one of the first seven 1500 ms timers of an invocation fires and the loop
\* sets the next phase; timers of the same delay fire in the order they were
\* set
AdvancePhase ==
  /\ \E i \in 1..Len(sims) :
       /\ sims[i].step < Len(phases)
       /\ \A j \in 1..(i - 1) : sims[j].step > sims[i].step
       /\ simulationPhase' = NextPhase(sims[i].step)
       /\ phaseLog' = Append(phaseLog, [phase |-> NextPhase(sims[i].step),
                                        at |-> sims[i].step * PhaseDelay])
       /\ sims' = [sims EXCEPT ![i].step = @ + 1]
  /\ UNCHANGED <<showSimulation, selectedLocation, isSimulating, startedBy,
                 simulationEndedAt>>
  /\ UNCHANGED selectorVars
  /\ UNCHANGED selectedAsteroid
  /\ UNCHANGED analysisVars

\* the eighth timer of the oldest invocation fires: the loop ends and
\* setIsSimulating(false)
EndSimulation ==
  /\ sims # <<>>
  /\ Head(sims).step = Len(phases)
  /\ isSimulating' = FALSE
  /\ simulationEndedAt' = Head(sims).step * PhaseDelay
  /\ sims' = Tail(sims)
  /\ UNCHANGED <<showSimulation, selectedLocation, simulationPhase, startedBy,
                 phaseLog>>
  /\ UNCHANGED selectorVars
  /\ UNCHANGED selectedAsteroid
  /\ UNCHANGED analysisVars

(* ------------------------------------------------------------------ *)
(* Specifications                                                      *)
(* ------------------------------------------------------------------ *)
\* the page once mounted: the effect of AsteroidSelector has called
\* fetchAsteroids, nothing is selected
Init ==
  /\ asteroids = <<>>
  /\ loading = TRUE
  /\ error = Null
  /\ thrown = Null
  /\ selectedAsteroid = Null
  /\ collisionData = Null
  /\ analyzing = FALSE
  /\ progress = 0
  /\ analysis = Null
  /\ runs = <<>>
  /\ outcome = "none"
  /\ analysedAsteroid = Null
  /\ analysedAt = Null
  /\ showSimulation = FALSE
  /\ selectedLocation = Null
  /\ isSimulating = FALSE
  /\ simulationPhase = ""
  /\ sims = <<>>
  /\ startedBy = "none"
  /\ phaseLog = <<>>
  /\ simulationEndedAt = 0

Next ==
  \/ FetchAsteroids
  \/ FetchSucceeds
  \/ FetchFails
  \/ SelectAsteroid
  \/ AdvanceProgress
  \/ CompleteAnalysis

Spec == Init /\ [][Next]_vars

\* the estimator on its own: the page after an asteroid of EstimateInputs,
\* the only one of the list, was selected, and from then on the timers only
InitEstimate ==
  /\ \E asteroid \in EstimateInputs :
       /\ asteroids = <<asteroid>>
       /\ selectedAsteroid = asteroid
       /\ runs = <<[asteroid |-> asteroid, step |-> 0]>>
  /\ loading = FALSE
  /\ error = Null
  /\ thrown = Null
  /\ collisionData = Null
  /\ analyzing = TRUE
  /\ progress = 0
  /\ analysis = Null
  /\ outcome = "none"
  /\ analysedAsteroid = Null
  /\ analysedAt = Null
  /\ showSimulation = FALSE
  /\ selectedLocation = Null
  /\ isSimulating = FALSE
  /\ simulationPhase = ""
  /\ sims = <<>>
  /\ startedBy = "none"
  /\ phaseLog = <<>>
  /\ simulationEndedAt = 0

NextEstimate ==
  \/ AdvanceProgress
  \/ CompleteAnalysis

SpecEstimate == InitEstimate /\ [][NextEstimate]_vars

\* the impact simulation on its own: the page after a fetch, a selection and
\* the delivery of its analysis, which mounts ImpactSimulation, and from then
\* on the clicks and timers of the simulation only
InitSimulation ==
  /\ asteroids = <<FarAsteroid, NearAsteroid>>
  /\ loading = FALSE
  /\ error = Null
  /\ thrown = Null
  /\ \E asteroid \in {FarAsteroid, NearAsteroid} :
       \E now \in NowSamples, rnd \in RandomSamples :
         /\ selectedAsteroid = asteroid
         /\ analysis = AnalysisResult(asteroid, now, rnd)
         /\ collisionData = analysis
         /\ analysedAsteroid = asteroid
         /\ analysedAt = now
  /\ analyzing = FALSE
  /\ progress = progressSteps[Len(progressSteps)]
  /\ runs = <<>>
  /\ outcome = "resolved"
  /\ showSimulation = FALSE
  /\ selectedLocation = Null
  /\ isSimulating = FALSE
  /\ simulationPhase = ""
  /\ sims = <<>>
  /\ startedBy = "none"
  /\ phaseLog = <<>>
  /\ simulationEndedAt = 0

NextSimulation ==
  \/ MarkerClick
  \/ StartButtonClick
  \/ AdvancePhase
  \/ EndSimulation

\* a timer that was set fires
SpecSimulation ==
  /\ InitSimulation
  /\ [][NextSimulation]_vars
  /\ WF_vars(AdvancePhase)
  /\ WF_vars(EndSimulation)

(* ------------------------------------------------------------------ *)
(* Properties of the estimator (SpecEstimate)                          *)
(* ------------------------------------------------------------------ *)
\* the largest factor the scaling laws are tried with
MaxScale == 3

\* an analysis was delivered
Delivered == analysis # Null

\* the inputs the delivered analysis was computed from
MissOf(asteroid) == parseFloat(asteroid.close_approach_data[1].miss_distance)
VelocityOf(asteroid) == parseFloat(asteroid.close_approach_data[1].relative_velocity)

NonNegative(x) == ~x.nan /\ x.v >= 0

\* the asteroid with another miss distance, velocity or diameter range
WithMiss(asteroid, s) ==
  [asteroid EXCEPT !.close_approach_data[1].miss_distance = s]
WithVelocity(asteroid, s) ==
  [asteroid EXCEPT !.close_approach_data[1].relative_velocity = s]
WithRange(asteroid, r) ==
  [asteroid EXCEPT !.estimated_diameter_min = r[1],
                   !.estimated_diameter_max = r[2]]

\* 0.95, 1.5 * 6371, 2 * 6371 and 10 * 6371 in the units of the model
Cap95 == (ProbDen \div 100) * 95
CollisionRange == 15 * earthRadius
TwoRadii == 20 * earthRadius
TenRadii == 100 * earthRadius

Larger(x, y) == IF x >= y THEN x ELSE y
Smaller(x, y) == IF x <= y THEN x ELSE y

\* the distance band of a miss distance d >= 0, in tenths
BandOf(d) == IF d < TwoRadii THEN 1 ELSE IF d < TenRadii THEN 2 ELSE 3

\* the pre-hazard, pre-clamp probability the specification gives for d >= 0
ExpectedBandProbability(d) ==
  IF d < TwoRadii THEN Larger(ProbDen \div 10, ProbDen - 1000 * d)
  ELSE IF d < TenRadii THEN Larger(ProbDen \div 1000, (ProbDen \div 10) - 100 * d)
  ELSE Larger(ProbDen \div 10000, (ProbDen \div 100) - 10 * d)

\* C1: for every input with missDistance >= 0, velocity >= 0 and average
\* diameter >= 0, and either hazard flag, the probability of the delivered
\* analysis lies in [0, 0.95].
C1_ProbabilityInRange ==
  (/\ Delivered
   /\ NonNegative(MissOf(analysedAsteroid))
   /\ NonNegative(VelocityOf(analysedAsteroid))
   /\ Diameter(analysedAsteroid) >= 0)
  => /\ ~analysis.probability.nan
     /\ analysis.probability.v >= 0
     /\ analysis.probability.v <= Cap95

\* a delivered analysis whose probability was cut down to the cap
C1_Witness ==
  /\ Delivered
  /\ NonNegative(MissOf(analysedAsteroid))
  /\ NonNegative(VelocityOf(analysedAsteroid))
  /\ analysedAsteroid.is_potentially_hazardous_asteroid
  /\ MissOf(analysedAsteroid).v = 50000
  /\ analysis.probability = Num(Cap95)

\* C2: for every miss distance d >= 0, willCollide of the delivered analysis
\* is true if and only if d < 1.5 * 6371, whatever the velocity, the diameter
\* and the hazard flag.
C2_WillCollideIffWithinRange ==
  (Delivered /\ NonNegative(MissOf(analysedAsteroid)))
  => (analysis.willCollide <=> MissOf(analysedAsteroid).v < CollisionRange)

\* a collision at 9556.4 km, the largest distance of the model under 9556.5
C2_Witness ==
  /\ Delivered
  /\ MissOf(analysedAsteroid) = Num(CollisionRange - 1)
  /\ analysis.willCollide

\* C3: for d >= 0 the probability before the hazard factor and the clamp is
\* max(0.1, 1 - d/(10R)) for d < 2R, max(0.001, 0.1 - d/(100R)) for
\* 2R <= d < 10R and max(0.0001, 0.01 - d/(1000R)) for d >= 10R (d = 2R takes
\* the second formula, d = 10R the third), it is strictly positive, and the
\* delivered probability is that value, doubled for a hazardous asteroid and
\* cut at 0.95.
C3_BandFormulas ==
  (Delivered /\ NonNegative(MissOf(analysedAsteroid)))
  => LET d == MissOf(analysedAsteroid).v
         expected == ExpectedBandProbability(d)
         factor == IF analysedAsteroid.is_potentially_hazardous_asteroid
                     THEN 2 ELSE 1
     IN  /\ BandProbability(Num(d)) = Num(expected)
         /\ expected > 0
         /\ analysis.probability = Num(Smaller(factor * expected, Cap95))

\* d = 2R exactly, not hazardous: the second formula gives 0.1 - 0.02 = 0.08
C3_Witness ==
  /\ Delivered
  /\ MissOf(analysedAsteroid) = Num(TwoRadii)
  /\ ~analysedAsteroid.is_potentially_hazardous_asteroid
  /\ analysis.probability = Num((ProbDen \div 100) * 8)

\* C4: of two asteroids that differ in the hazard flag only, the hazardous one
\* has exactly twice the probability of the other before the clamp, and the
\* delivered probability is the smaller of that value and 0.95 for both (here
\* for d >= 0, where the value before the hazard factor is a number).
C4_HazardDoublesBeforeClamp ==
  (Delivered /\ NonNegative(MissOf(analysedAsteroid)))
  => LET base == BandProbability(MissOf(analysedAsteroid)).v
         hazardous == analysedAsteroid.is_potentially_hazardous_asteroid
         twin == [analysedAsteroid EXCEPT
                    !.is_potentially_hazardous_asteroid = ~hazardous]
         mine == analysis.probability
         other == AnalysisResult(twin, analysedAt, 0).probability
         reportedHazardous == IF hazardous THEN mine ELSE other
         reportedPlain == IF hazardous THEN other ELSE mine
     IN  /\ reportedPlain = Num(Smaller(base, Cap95))
         /\ reportedHazardous = Num(Smaller(2 * base, Cap95))

\* d = 5000, hazardous: 0.9215 doubled is cut to 0.95, and the twin that is
\* not hazardous is reported below the cap
C4_Witness ==
  /\ Delivered
  /\ MissOf(analysedAsteroid) = Num(50000)
  /\ analysedAsteroid.is_potentially_hazardous_asteroid
  /\ analysis.probability = Num(Cap95)
  /\ 2 * BandProbability(Num(50000)).v > Cap95
  /\ AnalysisResult([analysedAsteroid EXCEPT
                       !.is_potentially_hazardous_asteroid = FALSE],
                    analysedAt, 0).probability.v < Cap95

\* C5: for miss distances 0 <= d1 <= d2 of the same band, the other inputs
\* the same, the probability delivered for d2 is not larger than the one
\* delivered for d1.
C5_MonotoneWithinBand ==
  (Delivered /\ NonNegative(MissOf(analysedAsteroid)))
  => \A s \in MissStrings :
       LET d1 == MissOf(analysedAsteroid)
           d2 == parseFloat(s)
       IN  (/\ NonNegative(d2)
            /\ d1.v <= d2.v
            /\ BandOf(d1.v) = BandOf(d2.v))
           => LET p2 == AnalysisResult(WithMiss(analysedAsteroid, s),
                                       analysedAt, 0).probability
              IN  ~p2.nan /\ p2.v <= analysis.probability.v

\* d1 = 2R, and a larger distance of the middle band with a strictly smaller
\* probability
C5_Witness ==
  /\ Delivered
  /\ MissOf(analysedAsteroid) = Num(TwoRadii)
  /\ \E s \in MissStrings :
       /\ NonNegative(parseFloat(s))
       /\ parseFloat(s).v > TwoRadii
       /\ BandOf(parseFloat(s).v) = 2
       /\ AnalysisResult(WithMiss(analysedAsteroid, s), analysedAt, 0).probability.v
            < analysis.probability.v

\* the invocation for the selected asteroid has ended, one way or the other
Ended == runs = <<>> /\ outcome # "none"

\* C6: when the close-approach list of the selected asteroid is empty, the
\* estimator signals a MissingApproachData error: no uncaught exception, no
\* analysis holding NaN, and the component does not stay in its analyzing
\* state.
C6_MissingApproachDataSignalled ==
  (Ended /\ selectedAsteroid.close_approach_data = <<>>)
  => /\ outcome = "MissingApproachData"
     /\ ~analyzing
     /\ collisionData = Null

\* C7: when the miss distance or the velocity of the first close-approach
\* record does not parse as a non-negative finite number, the estimator
\* reports an InvalidOrbitalData error and hands no analysis to
\* onAnalysisComplete.
C7_InvalidOrbitalDataReported ==
  (/\ Ended
   /\ selectedAsteroid.close_approach_data # <<>>
   /\ \/ ~NonNegative(MissOf(selectedAsteroid))
      \/ ~NonNegative(VelocityOf(selectedAsteroid)))
  => /\ outcome = "InvalidOrbitalData"
     /\ collisionData = Null

\* (4/3) * pi * (D * 500)^3 * 2500 in units of pi/96, for D = n/20:
\* (4/3) * pi * (25 * n)^3 * 2500 = 5 * 10^9 * n^3 * (pi/96)
SphereMassSI(diameter) == DecMul(Dec(5, 9), DecCube(Dec(diameter, 0)))

\* C8: the mass the kinetic energy is computed from is that of a sphere whose
\* radius is converted from kilometres to metres before it is cubed:
\* (4/3) * pi * (D * 500)^3 * 2500 for the average diameter D.
C8_MassInSIUnits ==
  (/\ Delivered
   /\ NonNegative(MissOf(analysedAsteroid))
   /\ NonNegative(VelocityOf(analysedAsteroid)))
  => analysis.kineticEnergy =
       KineticEnergy(SphereMassSI(Diameter(analysedAsteroid)),
                     VelocityOf(analysedAsteroid))

\* the kinetic energy and the crater size of the asteroid, as delivered
EnergyOf(asteroid) == AnalysisResult(asteroid, analysedAt, 0).kineticEnergy
CraterOf(asteroid) == AnalysisResult(asteroid, analysedAt, 0).craterSize

\* C9: for D >= 0 and v >= 0, kineticEnergy is 0.5 * mass * (v * 1000)^2,
\* kineticEnergy and craterSize are >= 0, multiplying v by k multiplies
\* kineticEnergy by k^2, multiplying D by k multiplies it by k^3, and
\* craterSize does not decrease when kineticEnergy grows.
C9_EnergyScaling ==
  (/\ Delivered
   /\ NonNegative(VelocityOf(analysedAsteroid))
   /\ Diameter(analysedAsteroid) >= 0)
  => LET a == analysedAsteroid
         n == Diameter(a)
         v == VelocityOf(a).v
         energy == analysis.kineticEnergy
     IN  \* 0.5 * mass * (v * 1000)^2 with mass = 5 * n^3 (pi/96)
         /\ energy = DecMul(Dec(5, 4), DecMul(DecCube(Dec(n, 0)), DecSquare(Dec(v, 0))))
         /\ DecLeq(Dec(0, 0), energy)
         /\ DecLeq(Dec(0, 0), analysis.craterSize)
         /\ \A k \in 1..MaxScale :
              /\ \A s \in VelocityStrings :
                   parseFloat(s) = Num(k * v)
                   => EnergyOf(WithVelocity(a, s)) = DecMul(Dec(k * k, 0), energy)
              /\ \A r \in DiameterRanges :
                   r[1] + r[2] = k * n
                   => EnergyOf(WithRange(a, r)) = DecMul(Dec(k * k * k, 0), energy)
         /\ \A s \in VelocityStrings, r \in DiameterRanges :
              LET b == WithRange(WithVelocity(a, s), r)
              IN  (NonNegative(parseFloat(s)) /\ DecLeq(energy, EnergyOf(b)))
                  => DecLeq(analysis.craterSize, CraterOf(b))

\* D = 1 and v = 10: a positive energy, the model holds the asteroids with
\* twice the velocity and with twice the diameter
C9_Witness ==
  /\ Delivered
  /\ Diameter(analysedAsteroid) = 20
  /\ VelocityOf(analysedAsteroid) = Num(100)
  /\ analysis.kineticEnergy.m > 0
  /\ analysis.craterSize.m > 0
  /\ \E s \in VelocityStrings : parseFloat(s) = Num(200)
  /\ \E r \in DiameterRanges : r[1] + r[2] = 40

\* C10: tsunamiRisk is true exactly when the average diameter is strictly
\* greater than 100 and willCollide is true; it is never true at a miss
\* distance >= 1.5 * 6371.
C10_TsunamiRisk ==
  Delivered
  => /\ analysis.tsunamiRisk <=>
          (Diameter(analysedAsteroid) > 2000 /\ analysis.willCollide)
     /\ (/\ NonNegative(MissOf(analysedAsteroid))
         /\ MissOf(analysedAsteroid).v >= CollisionRange)
        => ~analysis.tsunamiRisk

\* a tsunami risk: diameter 105, collision course
C10_Witness ==
  /\ Delivered
  /\ Diameter(analysedAsteroid) = 2100
  /\ analysis.willCollide
  /\ analysis.tsunamiRisk

\* C11: in every delivered analysis timeToImpact is present if and only if
\* willCollide is true, and when present it lies between the time of the
\* computation and that time plus one year (365 days).
C11_TimeToImpactIffCollision ==
  Delivered
  => /\ (analysis.timeToImpact # Null) <=> analysis.willCollide
     /\ analysis.timeToImpact # Null
        => /\ analysis.timeToImpact.at >= analysedAt
           /\ analysis.timeToImpact.at <= analysedAt + 365 * 24 * 60 * 60

\* a collision with an impact time strictly after the time of the computation
C11_Witness ==
  /\ Delivered
  /\ analysis.willCollide
  /\ analysis.timeToImpact # Null
  /\ analysis.timeToImpact.at > analysedAt

\* the asteroid with other records after its first one
WithLater(asteroid, later) ==
  [asteroid EXCEPT !.close_approach_data = <<@[1]>> \o later]

\* C16: the estimator reads the miss distance and the velocity of the first
\* close-approach record only: asteroids that differ in the records after the
\* first one get the same analysis, also when a later record has a smaller
\* miss distance, the one getClosestApproachDistance displays.
C16_FirstRecordOnly ==
  Delivered
  => \A later \in LaterApproaches :
       \E rnd \in RandomSamples :
         AnalysisResult(WithLater(analysedAsteroid, later), analysedAt, rnd) = analysis

\* first record at 50000 km, second at 5000 km: the selector displays 5K km,
\* the analysis reports no collision
C16_Witness ==
  /\ Delivered
  /\ Len(analysedAsteroid.close_approach_data) = 2
  /\ MissOf(analysedAsteroid) = Num(500000)
  /\ parseFloat(analysedAsteroid.close_approach_data[2].miss_distance) = Num(50000)
  /\ getClosestApproachDistance(analysedAsteroid)
       = [value |-> 5, decimals |-> 0, unit |-> "K km"]
  /\ ~analysis.willCollide

(* ------------------------------------------------------------------ *)
(* Properties of the page (Spec)                                       *)
(* ------------------------------------------------------------------ *)
\* C12: when fetchAsteroids fails (a response that is not ok, or a thrown
\* error), the error state is set to the message of the failure, loading goes
\* back to false, and the list fetched before and the selected asteroid are
\* left as they were.
C12_FetchFailureKeepsState ==
  [][(loading /\ thrown' # Null)
     => /\ error' = (IF thrown'.isError THEN thrown'.message
                     ELSE "Unknown error occurred")
        /\ ~loading'
        /\ asteroids' = asteroids
        /\ selectedAsteroid' = selectedAsteroid]_vars

\* a refresh failed on a response that is not ok, after a fetch that
\* succeeded and a selection
C12_Witness ==
  /\ ~loading
  /\ thrown # Null
  /\ error = "Failed to fetch asteroid data"
  /\ Len(asteroids) > 0
  /\ selectedAsteroid # Null

\* C17: the collisionData handed to the impact simulation, when not null, was
\* computed from the asteroid that is selected: selecting another asteroid
\* leaves no analysis of an earlier one on display, and none is delivered
\* after the new selection.
C17_CollisionDataOfSelected ==
  collisionData # Null => analysedAsteroid = selectedAsteroid

\* C18: analyzing is true whenever an invocation of
\* calculateCollisionProbability is in flight, overlapping ones included, and
\* false when none is.
C18_AnalyzingWhileInFlight ==
  runs # <<>> => analyzing

(* ------------------------------------------------------------------ *)
(* Properties of the impact simulation (SpecSimulation)                *)
(* ------------------------------------------------------------------ *)
\* C14: no second simulation starts while one is in progress: between the
\* start of startSimulation and its setIsSimulating(false) no other
\* invocation begins, from a marker or from the Start button, so at most one
\* invocation is in flight and no step starts one while isSimulating holds.
C14_NoSecondSimulation ==
  /\ Len(sims) <= 1
  /\ isSimulating <=> sims # <<>>
  /\ [][isSimulating => Len(sims') <= Len(sims)]_vars

\* a simulation is in progress, started from a marker after an earlier one
\* had ended
C14_Witness ==
  /\ isSimulating
  /\ Len(sims) = 1
  /\ startedBy = "marker"
  /\ selectedLocation \notin {Null, impactLocations[1]}
  /\ simulationPhase = phases[3]

\* the phases set since the last start are the first n of the list, each one
\* PhaseDelay after the one before
InOrder(log) ==
  /\ Len(log) <= Len(phases)
  /\ \A k \in 1..Len(log) :
       log[k] = [phase |-> phases[k], at |-> (k - 1) * PhaseDelay]

\* C15: a started simulation sets simulationPhase to the eight phases in
\* their order, each once and each for the same interval, the last being
\* 'Simulation complete.'; no phase is skipped and nothing cancels the
\* sequence, and after the last phase isSimulating becomes false.
C15_PhasesInOrder ==
  /\ [](isSimulating => /\ InOrder(phaseLog)
                        /\ simulationPhase = phaseLog[Len(phaseLog)].phase)
  /\ []((~isSimulating /\ phaseLog # <<>>)
          => /\ InOrder(phaseLog)
             /\ Len(phaseLog) = Len(phases)
             /\ simulationPhase = "Simulation complete."
             /\ simulationEndedAt = Len(phases) * PhaseDelay)
  /\ [][phaseLog' # phaseLog
          => \/ Len(phaseLog') = Len(phaseLog) + 1
             \/ ~isSimulating /\ Len(phaseLog') = 1]_vars
  /\ (isSimulating ~> (~isSimulating /\ simulationPhase = "Simulation complete."))

\* a simulation has run through its phases and ended
C15_Witness ==
  /\ ~isSimulating
  /\ Len(phaseLog) = Len(phases)
  /\ simulationPhase = "Simulation complete."
  /\ simulationEndedAt = Len(phases) * PhaseDelay

\* C19: the Start button starts a simulation only while selectedLocation is
\* null, and selectedLocation is never set back to null: once a simulation
\* was started, every later one is started by a marker.
C19_ButtonStartsOnlyFirst ==
  /\ [][(~isSimulating /\ isSimulating' /\ startedBy' = "button")
          => selectedLocation = Null]_vars
  /\ [][selectedLocation # Null
          => /\ selectedLocation' # Null
             /\ (~isSimulating /\ isSimulating') => startedBy' = "marker"]_vars

\* the simulation the Start button started has ended: the button is enabled
\* again and starts nothing
C19_Witness ==
  /\ startedBy = "button"
  /\ selectedLocation = impactLocations[1]
  /\ ~isSimulating
  /\ sims = <<>>
  /\ simulationEndedAt > 0

====
